---------------------------- MODULE Spec2Model ----------------------------
(***************************************************************************)
(* A model of src/types_os.py: the severity scale and finding validation,  *)
(* the AIResponse / AICall / AICalls aggregation queries, and the          *)
(* lab_test_clean investigation-text normalizer of ClinicalDocumentation.  *)
(*                                                                         *)
(* Python values are modelled as tagged records so that values of          *)
(* different Python types (None, Color, bool, AICall, an exception) are    *)
(* never compared with each other.  Text is modelled as a sequence of      *)
(* one-character strings.                                                  *)
(***************************************************************************)
EXTENDS Integers, Sequences, FiniteSets, TLC

VARIABLES
    raw,        \* the untyped payload handed to AIResponse(...)
    finding,    \* outcome of the last ResponseValue / RecommendationValue construction
    response,   \* outcome of AIResponse(**raw)
    call_color, \* outcome of AICall.color on the constructed payload
    src,        \* the AICalls object a filter was called on
    self,       \* the AICalls object queries are evaluated on
    via,        \* how self was obtained from src
    out,        \* outcome of the last query evaluated on self
    written,    \* the investigation blocks the upstream writer serialised
    lab_test,   \* ClinicalDocumentation.lab_test
    clean       \* outcome of ClinicalDocumentation.lab_test_clean

vars == <<raw, finding, response, call_color, src, self, via, out,
          written, lab_test, clean>>

(***************************************************************************)
(* Bounds of the model.                                                    *)
(***************************************************************************)
MaxFindings == 3
MaxCalls == 2
MaxTime == 2
MaxPairs == 2

(***************************************************************************)
(* Color (IntEnum) and ClinicalDecisionRule (Enum).                        *)
(***************************************************************************)
Green == 1
Yellow == 2
Red == 3

Color == {Green, Yellow, Red}

ColorNames == {"Green", "Yellow", "Red"}

\* Color[name]: lookup of a member by its name; defined on ColorNames only.
ColorByName(name) ==
    CASE name = "Green" -> Green
      [] name = "Yellow" -> Yellow
      [] name = "Red" -> Red

ClinicalDecisionRule ==
    <<"Treatment Recommendation",
      "Diagnosis Evaluation",
      "Clinical Notes",
      "Vitals & Chief Complaint Evaluation",
      "Investigation Recommendations">>

Rules == {ClinicalDecisionRule[i] : i \in DOMAIN ClinicalDecisionRule}

\* max(...) / min(...) of a non-empty set of integers.
Max(S) == CHOOSE x \in S : \A y \in S : y <= x
Min(S) == CHOOSE x \in S : \A y \in S : x <= y

Range(s) == {s[i] : i \in DOMAIN s}

\* All sequences over S of length at most n.
SeqsUpTo(S, n) == UNION {[1..k -> S] : k \in 0..n}

(***************************************************************************)
(* Raw severities: a Python str, or a value that is not a str (a Color     *)
(* member).  isinstance(v, str) is the tag t = "str".                      *)
(***************************************************************************)
Str(s) == [t |-> "str", s |-> s, c |-> 0]
Member(c) == [t |-> "Color", s |-> "", c |-> c]

RawStrings == {"Green", "Yellow", "Red", "green", "Purple"}
RawSeverities == {Str(s) : s \in RawStrings} \cup {Member(c) : c \in Color}

\* Outcomes of a Python call: a returned Color, a returned None, a raised error.
Ret(c) == [k |-> "Color", c |-> c, msg |-> "", v |-> Str("")]
RetNone == [k |-> "None", c |-> 0, msg |-> "", v |-> Str("")]
Raise(kind, msg, v) == [k |-> kind, c |-> 0, msg |-> msg, v |-> v]

\* def global_validate_severity(v): a non-str falls off the end of the
\* function, which returns None.
global_validate_severity(v) ==
    IF v.t = "str"
    THEN IF v.s \in ColorNames
         THEN Ret(ColorByName(v.s))
         ELSE Raise("ValueError", "Invalid severity", v)
    ELSE RetNone

\* severity: Color with a mode="before" validator (validate_severity, which
\* returns global_validate_severity(v)): the validator's result replaces the
\* input and is then validated as a Color; a ValueError raised by the
\* validator, or a result that is no Color, is a validation error.
severity_field(r, v) ==
    CASE r.k = "ValueError" -> Raise("ValidationError", r.msg, r.v)
      [] r.k = "Color" -> r
      [] r.k = "None" -> Raise("ValidationError", "Input should be 1, 2 or 3", v)

\* ResponseValue(Severity=v, Reason=...); the Reason is a valid str throughout.
ResponseValue(v) == severity_field(global_validate_severity(v), v)

\* RecommendationValue(Severity=v, Action=...); the Action is a valid str.
RecommendationValue(v) == severity_field(global_validate_severity(v), v)

(***************************************************************************)
(* AIResponse: both lists are validated item by item, and check_nonempty   *)
(* (mode="after") runs only when every item validated.                     *)
(***************************************************************************)
EmptyPayload == [responses |-> <<>>, recommendations |-> <<>>]

Built(p) == [status |-> "ok", obj |-> p, msg |-> ""]
Invalid(msg) == [status |-> "ValidationError", obj |-> EmptyPayload, msg |-> msg]
NotBuilt == [status |-> "not built", obj |-> EmptyPayload, msg |-> ""]

check_nonempty_either(values) ==
    IF values.responses = <<>> \/ values.recommendations = <<>>
    THEN Invalid("AIResponse must have at least one response value or at least one recommendation value")
    ELSE Built(values)

check_nonempty(values) ==
    IF values.responses = <<>> /\ values.recommendations = <<>>
    THEN Invalid("AIResponse must have at least one response value or at least one recommendation value")
    ELSE Built(values)

AIResponse(d) ==
    LET rs == [i \in DOMAIN d.Response |-> ResponseValue(d.Response[i])]
        cs == [i \in DOMAIN d.Recommendations |->
                   RecommendationValue(d.Recommendations[i])]
    IN  IF \E i \in DOMAIN rs : rs[i].k # "Color"
        THEN Invalid("Response: invalid item")
        ELSE IF \E i \in DOMAIN cs : cs[i].k # "Color"
        THEN Invalid("Recommendations: invalid item")
        ELSE check_nonempty(
                 [responses |-> [i \in DOMAIN rs |-> [severity |-> rs[i].c]],
                  recommendations |-> [i \in DOMAIN cs |-> [severity |-> cs[i].c]]])

(***************************************************************************)
(* AICall.color: the worst severity over both pools; max() of an empty     *)
(* set raises ValueError.                                                  *)
(***************************************************************************)
color_responses_first(resp) ==
    LET response_colors == {resp.responses[i].severity : i \in DOMAIN resp.responses}
        recommendation_colors ==
            {resp.recommendations[i].severity : i \in DOMAIN resp.recommendations}
    IN  IF response_colors # {} THEN Ret(Max(response_colors))
        ELSE IF recommendation_colors # {} THEN Ret(Max(recommendation_colors))
        ELSE Raise("ValueError", "max() arg is an empty sequence", Str(""))

color(resp) ==
    LET response_colors == {resp.responses[i].severity : i \in DOMAIN resp.responses}
        recommendation_colors ==
            {resp.recommendations[i].severity : i \in DOMAIN resp.recommendations}
        all_colors == response_colors \cup recommendation_colors
    IN  IF all_colors = {}
        THEN Raise("ValueError", "max() arg is an empty sequence", Str(""))
        ELSE Ret(Max(all_colors))

(***************************************************************************)
(* AICall and AICalls.  An AICall is its rule, its time and its validated  *)
(* AIResponse; the remaining fields are read by no query.  rule = None is  *)
(* NoRule.                                                                 *)
(***************************************************************************)
NoRule == "None"

AICall(rule, time, resp) == [rule |-> rule, time |-> time, response |-> resp]
NoCall == AICall(NoRule, 0, EmptyPayload)

AICalls(calls, rule) == [calls |-> calls, rule |-> rule]

\* Outcomes of a query: a raised error, None, an AICall, a Color, a bool or
\* a set of Colors.
QRaise(kind, msg) ==
    [k |-> kind, msg |-> msg, call |-> NoCall, c |-> 0, b |-> FALSE, colors |-> {}]
QNone == [k |-> "None", msg |-> "", call |-> NoCall, c |-> 0, b |-> FALSE, colors |-> {}]
QCall(x) == [k |-> "AICall", msg |-> "", call |-> x, c |-> 0, b |-> FALSE, colors |-> {}]
QColor(c) == [k |-> "Color", msg |-> "", call |-> NoCall, c |-> c, b |-> FALSE, colors |-> {}]
QBool(b) == [k |-> "bool", msg |-> "", call |-> NoCall, c |-> 0, b |-> b, colors |-> {}]
QSet(S) == [k |-> "set", msg |-> "", call |-> NoCall, c |-> 0, b |-> FALSE, colors |-> S]

Raised(o) == o.k = "ValueError"

\* call.color as a query outcome.
call_color_of(call) ==
    LET r == color(call.response)
    IN  IF r.k = "Color" THEN QColor(r.c) ELSE QRaise(r.k, r.msg)

_is_empty(s) == s.calls = <<>>

for_rule_unscoped(s, rule) ==
    AICalls(SelectSeq(s.calls, LAMBDA call : call.rule = rule), NoRule)

for_rule(s, rule) ==
    AICalls(SelectSeq(s.calls, LAMBDA call : call.rule = rule), rule)

for_rules_scoped(s, rules) ==
    AICalls(SelectSeq(s.calls, LAMBDA call : call.rule \in Range(rules)),
            IF Len(rules) = 1 THEN rules[1] ELSE NoRule)

for_rules(s, rules) ==
    AICalls(SelectSeq(s.calls, LAMBDA call : call.rule \in Range(rules)), NoRule)

\* max(calls, key=time) and min(calls, key=time) return the first extreme item.
max_by_time(calls) ==
    calls[Min({i \in DOMAIN calls : \A j \in DOMAIN calls : calls[j].time <= calls[i].time})]

min_by_time(calls) ==
    calls[Min({i \in DOMAIN calls : \A j \in DOMAIN calls : calls[i].time <= calls[j].time})]

final_earliest(s) ==
    IF s.rule = NoRule
    THEN QRaise("ValueError", "The final call is not defined for an AICalls object with no rule")
    ELSE IF _is_empty(s) THEN QNone
    ELSE QCall(min_by_time(s.calls))

final(s) ==
    IF s.rule = NoRule
    THEN QRaise("ValueError", "The final call is not defined for an AICalls object with no rule")
    ELSE IF _is_empty(s) THEN QNone
    ELSE QCall(max_by_time(s.calls))

first(s) ==
    IF s.rule = NoRule
    THEN QRaise("ValueError", "The first call is not defined for an AICalls object with no rule")
    ELSE IF _is_empty(s) THEN QNone
    ELSE QCall(min_by_time(s.calls))

final_color(s) ==
    LET f == final(s)
    IN  CASE Raised(f) -> f
          [] f.k = "AICall" -> call_color_of(f.call)
          [] OTHER -> QNone

first_color(s) ==
    LET f == first(s)
    IN  CASE Raised(f) -> f
          [] f.k = "AICall" -> call_color_of(f.call)
          [] OTHER -> QNone

any_final_color_scoped_only(s, c) ==
    LET fc == final_color(s)
    IN  IF Raised(fc) THEN fc ELSE QBool(fc.k = "Color" /\ fc.c = c)

any_final_color(s, c) ==
    LET final_colors_for_rules == {final_color(for_rule(s, rule)) : rule \in Rules}
    IN  IF \E o \in final_colors_for_rules : Raised(o)
        THEN CHOOSE o \in final_colors_for_rules : Raised(o)
        ELSE QBool(\E o \in final_colors_for_rules : o.k = "Color" /\ o.c = c)

any_first_color(s, c) ==
    LET first_colors_for_rules == {first_color(for_rule(s, rule)) : rule \in Rules}
    IN  IF \E o \in first_colors_for_rules : Raised(o)
        THEN CHOOSE o \in first_colors_for_rules : Raised(o)
        ELSE QBool(\E o \in first_colors_for_rules : o.k = "Color" /\ o.c = c)

colors_seen(s) ==
    IF _is_empty(s) THEN QNone
    ELSE LET cs == {call_color_of(s.calls[i]) : i \in DOMAIN s.calls}
         IN  IF \E o \in cs : Raised(o)
             THEN CHOOSE o \in cs : Raised(o)
             ELSE QSet({o.c : o \in cs})

worst_color(s) ==
    LET colors == colors_seen(s)
    IN  CASE Raised(colors) -> colors
          [] colors.k = "set" /\ colors.colors # {} -> QColor(Max(colors.colors))
          [] OTHER -> QNone

ever_had_color_false_if_empty(s, c) ==
    LET colors == colors_seen(s)
    IN  CASE Raised(colors) -> colors
          [] OTHER -> QBool(c \in colors.colors)

ever_had_color(s, c) ==
    LET colors == colors_seen(s)
    IN  CASE Raised(colors) -> colors
          [] colors.k = "set" /\ colors.colors # {} -> QBool(c \in colors.colors)
          [] OTHER -> QNone

\* fc is None or a Color, and every Color (1, 2, 3) is truthy.
final_is_color(s, c) ==
    LET fc == final_color(s)
    IN  CASE Raised(fc) -> fc
          [] fc.k = "Color" /\ fc.c # 0 -> QBool(fc.c = c)
          [] OTHER -> QNone

first_is_color(s, c) ==
    LET fc == first_color(s)
    IN  CASE Raised(fc) -> fc
          [] fc.k = "Color" /\ fc.c # 0 -> QBool(fc.c = c)
          [] OTHER -> QNone

(***************************************************************************)
(* Values of the variables a specification does not use.                   *)
(***************************************************************************)
NoRaw == [Response |-> <<>>, Recommendations |-> <<>>]
NoFinding == [cls |-> "", input |-> Str(""), res |-> RetNone]
NotComputed == [k |-> "not computed", c |-> 0, msg |-> "", v |-> Str("")]
Loaded == [op |-> "load", rule |-> NoRule, rules |-> <<>>]
NoOut == [op |-> "", arg |-> 0, res |-> QNone]

SeverityIdle ==
    /\ raw = NoRaw
    /\ finding = NoFinding
    /\ response = NotBuilt
    /\ call_color = NotComputed

CallsIdle ==
    /\ src = AICalls(<<>>, NoRule)
    /\ self = AICalls(<<>>, NoRule)
    /\ via = Loaded
    /\ out = NoOut

(***************************************************************************)
(* Findings, payload and call color: the inputs are the untyped payloads   *)
(* with at most MaxFindings findings.                                      *)
(***************************************************************************)
RawPayloads ==
    {[Response |-> rs, Recommendations |-> cs] :
        <<rs, cs>> \in {p \in SeqsUpTo(RawSeverities, MaxFindings)
                               \X SeqsUpTo(RawSeverities, MaxFindings) :
                            Len(p[1]) + Len(p[2]) <= MaxFindings}}

\* ResponseValue(**raw["Response"][i])
BuildResponseValue(i) ==
    /\ response = NotBuilt
    /\ finding' = [cls |-> "ResponseValue", input |-> raw.Response[i],
                   res |-> ResponseValue(raw.Response[i])]
    /\ UNCHANGED <<raw, response, call_color, src, self, via, out,
                   written, lab_test, clean>>

\* RecommendationValue(**raw["Recommendations"][i])
BuildRecommendationValue(i) ==
    /\ response = NotBuilt
    /\ finding' = [cls |-> "RecommendationValue", input |-> raw.Recommendations[i],
                   res |-> RecommendationValue(raw.Recommendations[i])]
    /\ UNCHANGED <<raw, response, call_color, src, self, via, out,
                   written, lab_test, clean>>

\* AIResponse(**raw)
BuildAIResponse ==
    /\ response = NotBuilt
    /\ response' = AIResponse(raw)
    /\ finding' = NoFinding
    /\ UNCHANGED <<raw, call_color, src, self, via, out, written, lab_test, clean>>

\* AICall(response=response, ...).color
CallColor ==
    /\ response.status = "ok"
    /\ call_color = NotComputed
    /\ call_color' = color(response.obj)
    /\ UNCHANGED <<raw, finding, response, src, self, via, out,
                   written, lab_test, clean>>

(***************************************************************************)
(* Collections of calls: the inputs are the collections of at most        *)
(* MaxCalls calls with times 1..MaxTime.                                   *)
(***************************************************************************)
\* The rules the calls of a collection carry, and the scopes a collection
\* is constructed with.
DataRules == {ClinicalDecisionRule[1], ClinicalDecisionRule[2]}
InitScopes == {NoRule, ClinicalDecisionRule[1]}
\* The arguments of the filters: a rule with calls and a rule without; a
\* single rule and a pair of rules.
FilterRules == {ClinicalDecisionRule[1], ClinicalDecisionRule[5]}
FilterLists ==
    {<<ClinicalDecisionRule[1]>>,
     <<ClinicalDecisionRule[1], ClinicalDecisionRule[2]>>}

CallPayloads ==
    {[responses |-> <<[severity |-> Green]>>, recommendations |-> <<>>],
     [responses |-> <<>>, recommendations |-> <<[severity |-> Yellow]>>],
     [responses |-> <<[severity |-> Green]>>,
      recommendations |-> <<[severity |-> Red]>>]}

Calls == {AICall(r, t, p) : r \in DataRules, t \in 1..MaxTime, p \in CallPayloads}

Collections == {AICalls(cs, r) : cs \in SeqsUpTo(Calls, MaxCalls), r \in InitScopes}

\* self.for_rule(rule): the result is a new object and self is not written.
ForRule(rule) ==
    /\ via.op = "load"
    /\ out = NoOut
    /\ src' = self
    /\ self' = for_rule(self, rule)
    /\ via' = [op |-> "for_rule", rule |-> rule, rules |-> <<>>]
    /\ out' = NoOut
    /\ UNCHANGED <<raw, finding, response, call_color, written, lab_test, clean>>

\* self.for_rules(rules)
ForRules(rules) ==
    /\ via.op = "load"
    /\ out = NoOut
    /\ src' = self
    /\ self' = for_rules(self, rules)
    /\ via' = [op |-> "for_rules", rule |-> NoRule, rules |-> rules]
    /\ out' = NoOut
    /\ UNCHANGED <<raw, finding, response, call_color, written, lab_test, clean>>

\* A query is pure (it writes neither self nor src), so a behaviour records
\* the outcome of one query on the collection it has reached.
Query(op, arg, res) ==
    /\ out = NoOut
    /\ out' = [op |-> op, arg |-> arg, res |-> res]
    /\ UNCHANGED <<raw, finding, response, call_color, src, self, via,
                   written, lab_test, clean>>

Final == Query("final", 0, final(self))
First == Query("first", 0, first(self))
FinalColor == Query("final_color", 0, final_color(self))
FirstColor == Query("first_color", 0, first_color(self))
FinalIsColor(c) == Query("final_is_color", c, final_is_color(self, c))
FirstIsColor(c) == Query("first_is_color", c, first_is_color(self, c))
AnyFinalColor(c) == Query("any_final_color", c, any_final_color(self, c))
AnyFirstColor(c) == Query("any_first_color", c, any_first_color(self, c))
ColorsSeen == Query("colors_seen", 0, colors_seen(self))
WorstColor == Query("worst_color", 0, worst_color(self))
EverHadColor(c) == Query("ever_had_color", c, ever_had_color(self, c))

NormIdle ==
    /\ written = [style |-> 0, blocks |-> <<>>]
    /\ lab_test = [k |-> "None", text |-> <<>>, msg |-> ""]
    /\ clean = [k |-> "not run", text |-> <<>>, msg |-> ""]

InitSeverity ==
    /\ raw \in RawPayloads
    /\ finding = NoFinding
    /\ response = NotBuilt
    /\ call_color = NotComputed
    /\ CallsIdle
    /\ NormIdle

NextSeverity ==
    \/ \E i \in DOMAIN raw.Response : BuildResponseValue(i)
    \/ \E i \in DOMAIN raw.Recommendations : BuildRecommendationValue(i)
    \/ BuildAIResponse
    \/ CallColor

SpecSeverity == InitSeverity /\ [][NextSeverity]_vars

InitCalls ==
    /\ self \in Collections
    /\ src = self
    /\ via = Loaded
    /\ out = NoOut
    /\ SeverityIdle
    /\ NormIdle

NextCalls ==
    \/ \E rule \in FilterRules : ForRule(rule)
    \/ \E rules \in FilterLists : ForRules(rules)
    \/ Final
    \/ First
    \/ FinalColor
    \/ FirstColor
    \/ \E c \in Color : FinalIsColor(c)
    \/ \E c \in Color : FirstIsColor(c)
    \/ \E c \in Color : AnyFinalColor(c)
    \/ \E c \in Color : AnyFirstColor(c)
    \/ ColorsSeen
    \/ WorstColor
    \/ \E c \in Color : EverHadColor(c)

SpecCalls == InitCalls /\ [][NextCalls]_vars

(***************************************************************************)
(* Text.  A str is a sequence of one-character strings; the operators      *)
(* below are str.strip, str.replace, str.split, str.lower, str.endswith,   *)
(* the "in" test on strs and the code-point order of strs.                 *)
(***************************************************************************)
\* The printable ASCII characters in code-point order, from " " (32) to "~" (126);
\* code 96, the grave accent, no text of the model holds and it is written "GRAVE".
Ascii ==
    <<" ", "!", "\"", "#", "$", "%", "&", "'", "(", ")", "*", "+", ",", "-", ".", "/", "0", "1",
      "2", "3", "4", "5", "6", "7", "8", "9", ":", ";", "<", "=", ">", "?", "@", "A", "B", "C",
      "D", "E", "F", "G", "H", "I", "J", "K", "L", "M", "N", "O", "P", "Q", "R", "S", "T", "U",
      "V", "W", "X", "Y", "Z", "[", "\\", "]", "^", "_", "GRAVE", "a", "b", "c", "d", "e", "f",
      "g", "h", "i", "j", "k", "l", "m", "n", "o", "p", "q", "r", "s", "t", "u", "v", "w", "x",
      "y", "z", "{", "|", "}", "~">>

INVESTIGATION_SUBFIELD_SORT_ORDER ==
    <<
      [name |-> <<"F", "u", "l", "l", " ", "H", "a", "e", "m", "o", "g", "r", "a", "m", " ", "(", "F", "H", "G", ")">>,
       order |-> <<
         <<"R", "e", "s", "u", "l", "t", ".", ".">>,
         <<"W", "B", "C">>,
         <<"H", "G", "B">>,
         <<"H", "C", "T">>,
         <<"P", "l", "t">>,
         <<"R", "B", "C", " ", "(", "F", "u", "l", "l", " ", "H", "a", "e", "m", "o", "g", "r", "a", "m", ")">>,
         <<"M", "C", "V">>,
         <<"M", "C", "H">>,
         <<"M", "C", "H", "C">>,
         <<"R", "D", "W", "-", "C", "V">>,
         <<"R", "D", "W", "-", "S", "D">>,
         <<"N", "e", "u", "t", "r", "o", "p", "h", "i", "l", "l", " ", "p", "e", "r", "c", "e", "n", "t", "a", "g", "e">>,
         <<"M", "i", "d", "-", "g", "r", "a", "n", "u", "l", "o", "c", "y", "t", "e", " ", "P", "e", "r", "c", "e", "n", "t", "a", "g", "e">>,
         <<"L", "y", "m", "p", "h", "o", "c", "y", "t", "e", " ", "P", "e", "r", "c", "e", "n", "t", "a", "g", "e">>,
         <<"N", "e", "u", "t", "r", "o", "p", "h", "i", "l", "l", " ", "c", "o", "u", "n", "t">>,
         <<"M", "i", "d", "-", "g", "r", "a", "n", "u", "l", "o", "c", "y", "t", "e", "s", " ", "C", "o", "u", "n", "t">>,
         <<"L", "y", "m", "p", "h", "o", "c", "y", "t", "e", "s", " ", "C", "o", "u", "n", "t">>,
         <<"M", "P", "V">>,
         <<"P", "D", "W">>,
         <<"P", "C", "T">>,
         <<"P", "-", "L", "C", "R">>,
         <<"P", "-", "L", "C", "C">>>>],
      [name |-> <<"U", "r", "i", "n", "e", " ", "A", "n", "a", "l", "y", "s", "i", "s">>,
       order |-> <<
         <<"R", "e", "s", "u", "l", "t", ".", ".">>,
         <<"C", "o", "l", "o", "u", "r", ".">>,
         <<"A", "p", "p", "e", "a", "r", "a", "n", "c", "e", " ", "(", "U", "r", "i", "n", "e", " ", "A", "n", "a", "l", "y", "s", "i", "s", ")">>,
         <<"p", "H", " ", "(", "D", "i", "p", "s", "t", "i", "c", "k", ")">>,
         <<"S", "p", "e", "c", "i", "f", "i", "c", " ", "G", "r", "a", "v", "i", "t", "y">>,
         <<"G", "l", "u", "c", "o", "s", "e">>,
         <<"K", "e", "t", "o", "n", "e", "s">>,
         <<"P", "r", "o", "t", "e", "i", "n", "s">>,
         <<"B", "l", "o", "o", "d", " ", "(", "D", "i", "p", "s", "t", "i", "c", "k", ")">>,
         <<"L", "e", "u", "k", "o", "c", "y", "t", "e", "s">>,
         <<"N", "i", "t", "r", "a", "t", "e">>,
         <<"U", "r", "o", "b", "i", "l", "i", "n", "o", "g", "e", "n">>,
         <<"P", "u", "s", " ", "c", "e", "l", "l", "s">>,
         <<"R", "B", "C", "'", "s", " ", "(", "U", "r", "i", "n", "a", "l", "y", "s", "i", "s", "-", "M", "i", "c", "r", "o", "s", "c", "o", "p", "y", ")">>,
         <<"E", "p", "i", "t", "h", "e", "l", "i", "a", "l", " ", "C", "e", "l", "l", "s">>,
         <<"C", "r", "y", "s", "t", "a", "l", "s", " ", "-", "-", " ", "A", "m", "o", "u", "n", "t", " ", "(", "M", "i", "c", "r", "o", "s", "c", "o", "p", "y", ")">>,
         <<"P", "a", "r", "a", "s", "i", "t", "e", "s", " ", "(", "U", "r", "i", "n", "e", " ", "M", "i", "c", "r", "o", "s", "c", "o", "p", "y", ")">>,
         <<"T", "r", "i", "c", "h", "o", "m", "o", "n", "a", "d", "s", " ", "(", "U", "r", "i", "n", "a", "l", "y", "s", "i", "s", "-", "M", "i", "c", "r", "o", "s", "c", "o", "p", "y", ")">>,
         <<"Y", "e", "a", "s", "t", " ", "c", "e", "l", "l", "s", " ", "(", "M", "i", "c", "r", "o", "s", "c", "o", "p", "y", ")">>,
         <<"A", "m", "o", "u", "n", "t", " ", "o", "f", " ", "y", "e", "a", "s", "t", " ", "c", "e", "l", "l", "s">>,
         <<"B", "i", "l", "i", "r", "u", "b", "i", "n", ".">>,
         <<"C", "a", "s", "t", "s", " ", "-", " ", "t", "y", "p", "e">>,
         <<"C", "r", "y", "s", "t", "a", "l", "s", " ", "-", "-", " ", "T", "y", "p", "e">>>>],
      [name |-> <<"S", "t", "o", "o", "l", " ", "M", "i", "c", "r", "o", "s", "c", "o", "p", "y">>,
       order |-> <<
         <<"R", "e", "s", "u", "l", "t", ".", ".">>,
         <<"C", "o", "l", "o", "u", "r">>,
         <<"C", "o", "n", "s", "i", "s", "t", "e", "n", "c", "y">>,
         <<"B", "l", "o", "o", "d", " ", "(", "G", "r", "o", "s", "s", " ", "A", "p", "p", "e", "a", "r", "a", "n", "c", "e", ")">>,
         <<"M", "u", "c", "o", "u", "s">>,
         <<"R", "B", "C", "'", "s", " ", "(", "M", "i", "c", "r", "o", "s", "c", "o", "p", "y", ")">>,
         <<"P", "u", "s", " ", "c", "e", "l", "l", "s">>,
         <<"P", "a", "r", "a", "s", "i", "t", "e", "s">>,
         <<"Y", "e", "a", "s", "t", " ", "c", "e", "l", "l", "s", " ", "(", "M", "i", "c", "r", "o", "s", "c", "o", "p", "y", ")">>,
         <<"A", "m", "o", "u", "n", "t", " ", "o", "f", " ", "y", "e", "a", "s", "t", " ", "c", "e", "l", "l", "s">>,
         <<"C", "r", "y", "s", "t", "a", "l", "s", " ", "-", "-", " ", "A", "m", "o", "u", "n", "t">>,
         <<"C", "r", "y", "s", "t", "a", "l", "s", " ", "-", "-", " ", "T", "y", "p", "e">>>>]>>

\* Code point of a character.
Code(c) ==
    CASE c = "\t" -> 9
      [] c = "\n" -> 10
      [] OTHER -> 31 + (CHOOSE i \in DOMAIN Ascii : Ascii[i] = c)

\* Whitespace, for str.strip() and for \s.
Whitespace == {" ", "\t", "\n"}

RECURSIVE lstrip(_)
lstrip(s) == IF s # <<>> /\ Head(s) \in Whitespace THEN lstrip(Tail(s)) ELSE s

RECURSIVE rstrip(_)
rstrip(s) ==
    IF s # <<>> /\ s[Len(s)] \in Whitespace THEN rstrip(SubSeq(s, 1, Len(s) - 1)) ELSE s

strip(s) == rstrip(lstrip(s))

\* s[i:].startswith(p), with i counted from 1.
StartsAt(s, i, p) ==
    /\ i + Len(p) - 1 <= Len(s)
    /\ \A j \in 1..Len(p) : s[i + j - 1] = p[j]

\* p in s
Contains(s, p) == \E i \in 1..(Len(s) + 1) : StartsAt(s, i, p)

endswith(s, p) == Len(p) <= Len(s) /\ StartsAt(s, Len(s) - Len(p) + 1, p)

\* s.find(p) from index i: the first index at which p starts, 0 if none.
Find(s, p, i) ==
    LET hits == {j \in i..Len(s) : StartsAt(s, j, p)}
    IN  IF hits = {} THEN 0 ELSE Min(hits)

\* s.replace(old, new), for a non-empty old: left to right, without overlap.
RECURSIVE replace(_, _, _)
replace(s, old, new) ==
    LET j == Find(s, old, 1)
    IN  IF j = 0 THEN s
        ELSE SubSeq(s, 1, j - 1) \o new
             \o replace(SubSeq(s, j + Len(old), Len(s)), old, new)

\* s.split(sep), for a non-empty sep.
RECURSIVE split(_, _)
split(s, sep) ==
    LET j == Find(s, sep, 1)
    IN  IF j = 0 THEN <<s>>
        ELSE <<SubSeq(s, 1, j - 1)>> \o split(SubSeq(s, j + Len(sep), Len(s)), sep)

\* s.split(sep, maxsplit=1)
split_once(s, sep) ==
    LET j == Find(s, sep, 1)
    IN  IF j = 0 THEN <<s>>
        ELSE <<SubSeq(s, 1, j - 1), SubSeq(s, j + Len(sep), Len(s))>>

lower(s) ==
    [i \in DOMAIN s |->
        IF s[i] \notin Whitespace /\ Code(s[i]) \in 65..90
        THEN Ascii[Code(s[i]) + 32 - 31]
        ELSE s[i]]

\* a < b on strs: the code-point lexicographic order.
RECURSIVE StrLess(_, _)
StrLess(a, b) ==
    IF b = <<>> THEN FALSE
    ELSE IF a = <<>> THEN TRUE
    ELSE IF Head(a) = Head(b) THEN StrLess(Tail(a), Tail(b))
    ELSE Code(Head(a)) < Code(Head(b))

\* sorted(keys, key=rank): ascending in rank, the order of equal ranks kept.
sorted_by(keys, rank) ==
    LET pos(i) == 1 + Cardinality({j \in DOMAIN keys :
                        rank[j] < rank[i] \/ (rank[j] = rank[i] /\ j < i)})
    IN  [p \in DOMAIN keys |-> keys[CHOOSE i \in DOMAIN keys : pos(i) = p]]

\* sorted(keys) on strs.
sorted(keys) ==
    sorted_by(keys, [i \in DOMAIN keys |->
                       Cardinality({j \in DOMAIN keys : StrLess(keys[j], keys[i])})])

(***************************************************************************)
(* re.split(pattern, investigation_value), the pattern being a comma, any  *)
(* whitespace, and a lookahead for one or more characters other than       *)
(* comma and colon followed by a colon.  A match starts at a comma and     *)
(* takes m whitespace characters (the whitespace run is greedy and         *)
(* backtracks); the lookahead must match where the run stops.              *)
(***************************************************************************)
\* The lookahead at index p.
Lookahead(s, p) ==
    \E q \in (p + 1)..Len(s) :
        /\ s[q] = ":"
        /\ \A r \in p..(q - 1) : s[r] \notin {",", ":"}

\* The lengths m of whitespace after the comma at i that \s* may take.
WhitespaceRuns(s, i) ==
    {m \in 0..(Len(s) - i) : \A r \in (i + 1)..(i + m) : s[r] \in Whitespace}

\* A separator at every comma, as str.split(",") would take.
MatchEndAnyComma(s, i) ==
    IF s[i] = "," THEN i + Max(WhitespaceRuns(s, i)) ELSE 0

\* The end of the match that starts at i, or 0 when there is none.
MatchEnd(s, i) ==
    LET ms == {m \in WhitespaceRuns(s, i) : Lookahead(s, i + 1 + m)}
    IN  IF s[i] = "," /\ ms # {} THEN i + Max(ms) ELSE 0

RECURSIVE re_split_from(_, _, _)
re_split_from(s, i, start) ==
    IF i > Len(s) THEN <<SubSeq(s, start, Len(s))>>
    ELSE LET e == MatchEnd(s, i)
         IN  IF e = 0 THEN re_split_from(s, i + 1, start)
             ELSE <<SubSeq(s, start, i - 1)>> \o re_split_from(s, e + 1, e + 1)

re_split(s) == re_split_from(s, 1, 1)

(***************************************************************************)
(* ClinicalDocumentation.lab_test_clean.  A dict is the sequence of its    *)
(* items in insertion order.                                               *)
(***************************************************************************)
TextNone == [k |-> "None", text |-> <<>>, msg |-> ""]
Text(s) == [k |-> "str", text |-> s, msg |-> ""]
TextRaise(kind, msg) == [k |-> kind, text |-> <<>>, msg |-> msg]
NotRun == [k |-> "not run", text |-> <<>>, msg |-> ""]

NotRecorded == <<"N", "o", "t", " ", "r", "e", "c", "o", "r", "d", "e", "d">>
InvestigationsHeader ==
    <<
    "*", "*", "I", "n", "v", "e", "s", "t", "i", "g", "a", "t", "i", "o", "n", "s", " ", "c", "o",
    "n", "d", "u", "c", "t", "e", "d", ":", "*", "*", "\n">>
Result == <<"r", "e", "s", "u", "l", "t">>
Bullet == <<"\n", "*", " ">>

Keys(d) == [i \in DOMAIN d |-> d[i].key]
HasKey(d, key) == \E i \in DOMAIN d : d[i].key = key
Get(d, key) == d[CHOOSE i \in DOMAIN d : d[i].key = key].value

\* d[key] = value
SetItem(d, key, value) ==
    IF HasKey(d, key)
    THEN [i \in DOMAIN d |-> IF d[i].key = key THEN [key |-> key, value |-> value] ELSE d[i]]
    ELSE Append(d, [key |-> key, value |-> value])

\* The loop over the chunks of a block's body: key, value = chunk.split(":", 1)
\* raises ValueError unless the chunk holds a colon.
RECURSIVE investigation_substrings(_, _)
investigation_substrings(chunks, d) ==
    IF chunks = <<>> THEN [k |-> "dict", d |-> d]
    ELSE LET parts == split_once(Head(chunks), <<":">>)
         IN  IF Len(parts) # 2
             THEN [k |-> "ValueError", d |-> <<>>]
             ELSE investigation_substrings(
                      Tail(chunks), SetItem(d, strip(parts[1]), strip(parts[2])))

is_result_key(key) == Contains(lower(key), Result) /\ endswith(key, <<".">>)

\* "\n* key: value" for every key of keys, in order.
RECURSIVE bullets(_, _)
bullets(keys, d) ==
    IF keys = <<>> THEN <<>>
    ELSE Bullet \o Head(keys) \o <<":", " ">> \o Get(d, Head(keys))
         \o bullets(Tail(keys), d)

InTable(name) ==
    \E t \in DOMAIN INVESTIGATION_SUBFIELD_SORT_ORDER :
        INVESTIGATION_SUBFIELD_SORT_ORDER[t].name = name

Order(name) ==
    INVESTIGATION_SUBFIELD_SORT_ORDER[
        CHOOSE t \in DOMAIN INVESTIGATION_SUBFIELD_SORT_ORDER :
            INVESTIGATION_SUBFIELD_SORT_ORDER[t].name = name].order

\* list.index(x): the first index of x; ValueError when x is not in the list.
Index(list, x) == Min({i \in DOMAIN list : list[i] = x})

\* The sort of the keys left after the result keys are removed.
sorted_keys(investigation_name, keys) ==
    IF InTable(investigation_name)
    THEN IF \E i \in DOMAIN keys : keys[i] \notin Range(Order(investigation_name))
         THEN [k |-> "ValueError", keys |-> <<>>]
         ELSE [k |-> "list",
               keys |-> sorted_by(keys, [i \in DOMAIN keys |->
                            Index(Order(investigation_name), keys[i])])]
    ELSE [k |-> "list", keys |-> sorted(keys)]

\* One pass of the loop over investigation_list: the text the block adds.
format_investigation(investigation) ==
    LET parts == split_once(investigation, <<":">>)
    IN  IF Len(parts) # 2 THEN TextRaise("ValueError", "not enough values to unpack")
        ELSE
        LET investigation_name == strip(parts[1])
            investigation_value == strip(parts[2])
            subs == investigation_substrings(re_split(investigation_value), <<>>)
        IN  IF subs.k = "ValueError"
            THEN TextRaise("ValueError", "not enough values to unpack")
            ELSE
            LET result_keys == SelectSeq(Keys(subs.d), is_result_key)
                rest == SelectSeq(Keys(subs.d), LAMBDA key : ~is_result_key(key))
                order == sorted_keys(investigation_name, rest)
            IN  IF order.k = "ValueError"
                THEN TextRaise("ValueError", "is not in list")
                ELSE Text(investigation_name \o <<":", " ">>
                          \o bullets(result_keys, subs.d)
                          \o bullets(order.keys, subs.d)
                          \o <<"\n", "\n">>)

RECURSIVE format_investigations(_, _)
format_investigations(investigation_list, formatted_string) ==
    IF investigation_list = <<>> THEN Text(formatted_string)
    ELSE LET block == format_investigation(Head(investigation_list))
         IN  IF block.k # "str" THEN block
             ELSE format_investigations(Tail(investigation_list),
                                        formatted_string \o block.text)

lab_test_clean(s) ==
    IF s.k = "None" THEN TextNone
    ELSE IF s.text = NotRecorded THEN Text(NotRecorded)
    ELSE format_investigations(
             split(replace(replace(s.text, InvestigationsHeader, <<>>),
                           <<":", ":">>, <<":">>),
                   <<"\n", "\n">>),
             <<>>)

(***************************************************************************)
(* The normalizer's inputs: what an upstream writer serialises from        *)
(* investigation blocks of at most MaxPairs key/value pairs, as            *)
(* "name: key: value, key: value" with blocks separated by a blank line;   *)
(* in style 2 the text starts with the boilerplate header and every        *)
(* separating colon is doubled.  None, "Not recorded" and the worked       *)
(* example of the Full Haemogram are inputs too.                           *)
(***************************************************************************)
FullHaemogram == INVESTIGATION_SUBFIELD_SORT_ORDER[1].name
Malaria == <<"M", "a", "l", "a", "r", "i", "a">>
InvestigationNames == {FullHaemogram, Malaria}

ResultKey == <<"R", "e", "s", "u", "l", "t", ".", ".">>
WBC == <<"W", "B", "C">>
HGB == <<"H", "G", "B">>
ESR == <<"E", "S", "R">>
PairKeys == {ResultKey, WBC, HGB, ESR}

Normal == <<"N", "o", "r", "m", "a", "l">>
Thousands == <<"1", "3", ",", "4", "0", "0">>
SeenAt == <<"s", "e", "e", "n", ",", " ", "a", "t", " ", "1", "0", ":", "3", "0">>
PairValues == {Normal, Thousands, SeenAt}

Pair(key, value) == [key |-> key, value |-> value]
Pairs == {Pair(key, value) : key \in PairKeys, value \in PairValues}
Block(name, pairs) == [name |-> name, pairs |-> pairs]
Blocks(n) == {Block(name, pairs) : name \in InvestigationNames, pairs \in SeqsUpTo(Pairs, n)}

ExampleBlock ==
    Block(FullHaemogram, <<Pair(ResultKey, Normal), Pair(WBC, <<"7", ".", "2">>), Pair(HGB, Thousands)>>)
LastBlock == Block(Malaria, <<Pair(ResultKey, Normal)>>)

Doc(style, blocks) == [style |-> style, blocks |-> blocks]
NoDoc == Doc(0, <<>>)

Docs ==
    {Doc(style, <<b>>) : style \in {1, 2}, b \in Blocks(MaxPairs)}
    \cup {Doc(1, <<b, LastBlock>>) : b \in Blocks(1)}
    \cup {Doc(1, <<ExampleBlock>>)}

RECURSIVE JoinPairs(_, _)
JoinPairs(pairs, colon) ==
    IF pairs = <<>> THEN <<>>
    ELSE Head(pairs).key \o colon \o <<" ">> \o Head(pairs).value
         \o (IF Len(pairs) > 1 THEN <<",", " ">> ELSE <<>>)
         \o JoinPairs(Tail(pairs), colon)

RECURSIVE JoinBlocks(_, _)
JoinBlocks(blocks, colon) ==
    IF blocks = <<>> THEN <<>>
    ELSE Head(blocks).name \o colon \o <<" ">> \o JoinPairs(Head(blocks).pairs, colon)
         \o (IF Len(blocks) > 1 THEN <<"\n", "\n">> ELSE <<>>)
         \o JoinBlocks(Tail(blocks), colon)

Serialize(doc) ==
    IF doc.style = 2
    THEN InvestigationsHeader \o JoinBlocks(doc.blocks, <<":", ":">>)
    ELSE JoinBlocks(doc.blocks, <<":">>)

Example ==
    <<
    "F", "u", "l", "l", " ", "H", "a", "e", "m", "o", "g", "r", "a", "m", " ", "(", "F", "H", "G",
    ")", ":", " ", "R", "e", "s", "u", "l", "t", ".", ".", ":", " ", "N", "o", "r", "m", "a", "l",
    ",", " ", "W", "B", "C", ":", " ", "7", ".", "2", ",", " ", "H", "G", "B", ":", " ", "1", "3",
    ",", "4", "0", "0">>

ExampleClean ==
    <<
    "F", "u", "l", "l", " ", "H", "a", "e", "m", "o", "g", "r", "a", "m", " ", "(", "F", "H", "G",
    ")", ":", " ", "\n", "*", " ", "R", "e", "s", "u", "l", "t", ".", ".", ":", " ", "N", "o", "r",
    "m", "a", "l", "\n", "*", " ", "W", "B", "C", ":", " ", "7", ".", "2", "\n", "*", " ", "H",
    "G", "B", ":", " ", "1", "3", ",", "4", "0", "0", "\n", "\n">>

\* ClinicalDocumentation(..., LabTest=lab_test).lab_test_clean
LabTestClean ==
    /\ clean = NotRun
    /\ clean' = lab_test_clean(lab_test)
    /\ UNCHANGED <<raw, finding, response, call_color, src, self, via, out,
                   written, lab_test>>

InitNorm ==
    /\ \/ /\ written \in Docs
          /\ lab_test = Text(Serialize(written))
       \/ /\ written = NoDoc
          /\ lab_test \in {TextNone, Text(NotRecorded)}
    /\ clean = NotRun
    /\ SeverityIdle
    /\ CallsIdle

NextNorm == LabTestClean

SpecNorm == InitNorm /\ [][NextNorm]_vars

(***************************************************************************)
(* Properties of the severity model, checked under SpecSeverity.           *)
(***************************************************************************)
Severities(resp) ==
    {resp.responses[i].severity : i \in DOMAIN resp.responses}
    \cup {resp.recommendations[i].severity : i \in DOMAIN resp.recommendations}

\* C1: once the color of a call is computed, it is a Color, it is the
\* severity of one of the payload's findings (an observation or a
\* recommendation), and no finding of either pool has a higher severity.
C1_ColorIsWorstSeverity ==
    call_color # NotComputed =>
        /\ call_color.k = "Color"
        /\ call_color.c \in Severities(response.obj)
        /\ \A i \in DOMAIN response.obj.responses :
               response.obj.responses[i].severity <= call_color.c
        /\ \A i \in DOMAIN response.obj.recommendations :
               response.obj.recommendations[i].severity <= call_color.c

\* C1 witness: the color is Red, the observations are Green and Yellow only,
\* and the maximum sits in the recommendation pool.
C1_MaxInRecommendations ==
    /\ call_color.k = "Color"
    /\ call_color.c = Red
    /\ response.obj.responses # <<>>
    /\ \A i \in DOMAIN response.obj.responses :
           response.obj.responses[i].severity < Red
    /\ \E i \in DOMAIN response.obj.recommendations :
           response.obj.recommendations[i].severity = Red

\* C2: constructing a finding of either kind yields the scale value of a
\* symbolic name, yields the member itself when the raw severity already is
\* a scale member, and fails with "Invalid severity" naming the raw value
\* for any other string.
C2_SeverityValidation ==
    finding.cls # "" =>
        LET v == finding.input
        IN  /\ (v.t = "str" /\ v.s \in ColorNames) =>
                   (finding.res.k = "Color" /\ finding.res.c = ColorByName(v.s))
            /\ v.t = "Color" =>
                   (finding.res.k = "Color" /\ finding.res.c = v.c)
            /\ (v.t = "str" /\ v.s \notin ColorNames) =>
                   /\ finding.res.k = "ValidationError"
                   /\ finding.res.msg = "Invalid severity"
                   /\ finding.res.v = v

\* A raw finding that validates: its severity is a symbolic name.
NamedSeverity(v) == v.t = "str" /\ v.s \in ColorNames

\* C3: AIResponse built from no observation and no recommendation fails
\* validation; built from findings that all validate, at least one of
\* either kind, it succeeds and holds every finding.
C3_NonemptyPayload ==
    response # NotBuilt =>
        /\ (raw.Response = <<>> /\ raw.Recommendations = <<>>) =>
               response.status = "ValidationError"
        /\ ( /\ Len(raw.Response) + Len(raw.Recommendations) >= 1
             /\ \A i \in DOMAIN raw.Response : NamedSeverity(raw.Response[i])
             /\ \A i \in DOMAIN raw.Recommendations :
                    NamedSeverity(raw.Recommendations[i]) ) =>
               /\ response.status = "ok"
               /\ Len(response.obj.responses) = Len(raw.Response)
               /\ Len(response.obj.recommendations) = Len(raw.Recommendations)

\* C3 witness: a payload of recommendations only was built.
C3_RecommendationsOnly ==
    /\ response.status = "ok"
    /\ raw.Response = <<>>
    /\ raw.Recommendations # <<>>

(***************************************************************************)
(* Properties of the collection queries, checked under SpecCalls.          *)
(***************************************************************************)
TemporalQueries ==
    {"final", "first", "final_color", "first_color", "final_is_color", "first_is_color"}

NoScopeError(o) ==
    /\ o.k = "ValueError"
    /\ o.msg \in {"The final call is not defined for an AICalls object with no rule",
                  "The first call is not defined for an AICalls object with no rule"}

\* The worst severity among the findings of a call.
Worst(call) == Max(Severities(call.response))

\* C4: the result of for_rules has no scope, whatever the list of rules,
\* and each of final, first, final_color, first_color, final_is_color and
\* first_is_color raises the no-scope error on a collection without scope,
\* with or without calls.
C4_UnscopedTemporalRaises ==
    /\ via.op = "for_rules" => self.rule = NoRule
    /\ (out.op \in TemporalQueries /\ self.rule = NoRule) => NoScopeError(out.res)

\* C4 witness: final_is_color raised on the call-less result of for_rules
\* given a single rule.
C4_SingleRuleResultRaises ==
    /\ via.op = "for_rules"
    /\ Len(via.rules) = 1
    /\ self.calls = <<>>
    /\ src.calls # <<>>
    /\ out.op = "final_is_color"
    /\ NoScopeError(out.res)

\* The first index of calls whose time is the latest (earliest) of all.
FirstLatest(calls) ==
    CHOOSE i \in DOMAIN calls :
        /\ \A j \in DOMAIN calls : calls[j].time <= calls[i].time
        /\ \A j \in 1..(i - 1) : calls[j].time < calls[i].time

FirstEarliest(calls) ==
    CHOOSE i \in DOMAIN calls :
        /\ \A j \in DOMAIN calls : calls[i].time <= calls[j].time
        /\ \A j \in 1..(i - 1) : calls[i].time < calls[j].time

\* C5: on a scoped collection final (first) returns None when there are no
\* calls, and otherwise a call of the collection whose time no other call
\* exceeds (precedes); among several such calls it is the one that comes
\* first in the collection, so the result is a function of the input.
C5_FirstFinalExtremes ==
    (self.rule # NoRule /\ out.op \in {"final", "first"}) =>
        IF self.calls = <<>>
        THEN out.res = QNone
        ELSE /\ out.res.k = "AICall"
             /\ \E i \in DOMAIN self.calls : self.calls[i] = out.res.call
             /\ \A j \in DOMAIN self.calls :
                    IF out.op = "final"
                    THEN self.calls[j].time <= out.res.call.time
                    ELSE out.res.call.time <= self.calls[j].time
             /\ out.res.call = IF out.op = "final"
                               THEN self.calls[FirstLatest(self.calls)]
                               ELSE self.calls[FirstEarliest(self.calls)]

\* C5 witness: final returned a call while a different call of the
\* collection has the same, latest, time.
C5_TieOnLatest ==
    /\ self.rule # NoRule
    /\ out.op = "final"
    /\ out.res.k = "AICall"
    /\ \E j \in DOMAIN self.calls :
           /\ self.calls[j] # out.res.call
           /\ self.calls[j].time = out.res.call.time

\* The indices of the calls of a rule, and the n-th of them in order.
IndicesOf(calls, rule) == {i \in DOMAIN calls : calls[i].rule = rule}
Nth(S, n) == CHOOSE i \in S : Cardinality({j \in S : j <= i}) = n

\* C6: a for_rule(X) step leaves the collection it is called on as it was
\* (src after the step is self before it), and its result holds exactly the
\* calls of rule X of that collection, in their order, with scope X; first
\* and final evaluated on the result do not raise the no-scope error.
C6_ForRuleStep ==
    /\ (via.op = "load" /\ via'.op = "for_rule") =>
           /\ src' = self
           /\ self'.rule = via'.rule
           /\ self'.rule \in Rules
           /\ Len(self'.calls) = Cardinality(IndicesOf(self.calls, via'.rule))
           /\ \A n \in DOMAIN self'.calls :
                  self'.calls[n] = self.calls[Nth(IndicesOf(self.calls, via'.rule), n)]
    /\ (via'.op = "for_rule" /\ out'.op \in {"first", "final"}) =>
           out'.res.k \in {"None", "AICall"}

C6_ForRuleFilters == [][C6_ForRuleStep]_vars

\* C6 witness: the source holds a call of rule X before a call of another
\* rule, the result holds the former only, and final returned it.
C6_FilteredAndQueried ==
    /\ via.op = "for_rule"
    /\ Len(src.calls) = 2
    /\ src.calls[1].rule = via.rule
    /\ src.calls[2].rule # via.rule
    /\ self.calls = <<src.calls[1]>>
    /\ src.rule = NoRule
    /\ out.op = "final"
    /\ out.res = QCall(src.calls[1])

\* Call i is the one final (first) returns for its rule: no call of the
\* rule is later (earlier), and none before it in order has the same time.
IsFinalOfRule(calls, i) ==
    \A j \in DOMAIN calls :
        calls[j].rule = calls[i].rule =>
            \/ calls[j].time < calls[i].time
            \/ (calls[j].time = calls[i].time /\ j >= i)

IsFirstOfRule(calls, i) ==
    \A j \in DOMAIN calls :
        calls[j].rule = calls[i].rule =>
            \/ calls[i].time < calls[j].time
            \/ (calls[j].time = calls[i].time /\ j >= i)

\* C7: on any collection any_final_color(c) (any_first_color(c)) is a bool,
\* true exactly when some rule of ClinicalDecisionRule has calls in the
\* collection and the final (first) call of that rule has color c; it is
\* false on a collection without calls and never raises.
C7_AnyFinalFirstColor ==
    /\ out.op = "any_final_color" =>
           /\ out.res.k = "bool"
           /\ out.res.b <=>
                  \E i \in DOMAIN self.calls :
                      /\ self.calls[i].rule \in Rules
                      /\ IsFinalOfRule(self.calls, i)
                      /\ Worst(self.calls[i]) = out.arg
    /\ out.op = "any_first_color" =>
           /\ out.res.k = "bool"
           /\ out.res.b <=>
                  \E i \in DOMAIN self.calls :
                      /\ self.calls[i].rule \in Rules
                      /\ IsFirstOfRule(self.calls, i)
                      /\ Worst(self.calls[i]) = out.arg

\* C7 witness: on an unscoped collection any_final_color(c) is true although
\* an earlier call of the same rule has another color, and no call of the
\* collection that is not final for its rule has color c.
C7_LatestDecides ==
    /\ self.rule = NoRule
    /\ via.op = "load"
    /\ out.op = "any_final_color"
    /\ out.res.k = "bool"
    /\ out.res.b
    /\ \E i, j \in DOMAIN self.calls :
           /\ self.calls[i].rule = self.calls[j].rule
           /\ self.calls[i].time < self.calls[j].time
           /\ Worst(self.calls[i]) # out.arg
           /\ Worst(self.calls[j]) = out.arg

\* C8: on any collection with calls colors_seen is the set of the colors of
\* all its calls, worst_color the maximum of that set and ever_had_color(c)
\* the bool "some call has color c"; on a collection without calls, and
\* only there, the three return None; none of them raises.
C8_ExistentialQueries ==
    LET seen == {Worst(self.calls[i]) : i \in DOMAIN self.calls}
    IN  /\ out.op = "colors_seen" =>
               IF self.calls = <<>> THEN out.res = QNone ELSE out.res = QSet(seen)
        /\ out.op = "worst_color" =>
               IF self.calls = <<>> THEN out.res = QNone ELSE out.res = QColor(Max(seen))
        /\ out.op = "ever_had_color" =>
               IF self.calls = <<>> THEN out.res = QNone
               ELSE out.res = QBool(out.arg \in seen)

\* C8 witness: ever_had_color(c) is False, not None, on an unscoped
\* collection whose calls span two rules and never had color c.
C8_NeverHadColor ==
    /\ self.rule = NoRule
    /\ out.op = "ever_had_color"
    /\ out.res = QBool(FALSE)
    /\ \E i, j \in DOMAIN self.calls : self.calls[i].rule # self.calls[j].rule

(***************************************************************************)
(* Properties of the normalizer, checked under SpecNorm.                   *)
(***************************************************************************)
\* Pair i of a block is the last one written under its key.
LastOfKey(pairs, i) == \A j \in (i + 1)..Len(pairs) : pairs[j].key # pairs[i].key

\* Some comma of value is followed, within value, by one or more characters
\* other than comma and colon and then a colon.
ColonAfterComma(value) ==
    \E i \in DOMAIN value : value[i] = "," /\ Lookahead(value, i + 1)

\* "\n* key: value\n": the bullet of a pair, up to the end of its line.
BulletLine(key, value) == Bullet \o key \o <<":", " ">> \o value \o <<"\n">>

\* C9: when a written block is named as an entry of the field-order table
\* and holds a key that is no result key and is absent from that entry's
\* list, the normalizer still returns text.
C9_UnknownKeyHandled ==
    ( /\ clean # NotRun
      /\ \E b \in DOMAIN written.blocks :
             /\ InTable(written.blocks[b].name)
             /\ \E i \in DOMAIN written.blocks[b].pairs :
                    /\ ~is_result_key(written.blocks[b].pairs[i].key)
                    /\ written.blocks[b].pairs[i].key
                           \notin Range(Order(written.blocks[b].name)) )
    => clean.k = "str"

=============================================================================
